---- MODULE Spec2Model ----
(***************************************************************************)
(* System monitor: the background sampler (background_monitor), the        *)
(* history stores it mutates, and the two readers that run concurrently    *)
(* with it in request threads: get_history and analyze_memory_leak.        *)
(*                                                                         *)
(* Time is counted in minutes.  A thread switch can happen between any two *)
(* bytecodes, so every action below is one step that is atomic under the   *)
(* interpreter lock: one list.append, one slice assignment, one dictionary *)
(* lookup, one iteration of a comprehension over a shared list.            *)
(***************************************************************************)
EXTENDS Integers, Sequences, FiniteSets, TLC

\* ------------------------------------------------------------------------
\* Bounds of the model
\* ------------------------------------------------------------------------
MaxCycles == 3          \* sampler cycles explored
NumPids == 1            \* process ids the provider enumerates to the sampler
NumTracked == 2         \* process ids of the tables drawn for the detector
MaxSamples == 6         \* longest per-process series drawn for the detector

\* ------------------------------------------------------------------------
\* Program constants
\* ------------------------------------------------------------------------
GlobalHours == 24       \* timedelta(hours=24)
ProcessHours == 1       \* timedelta(hours=1)
SleepMinutes == 1       \* time.sleep(60)
TrendLen == 5           \* "Need at least 5 data points", [-5:]
DefaultThreshold == 100 \* threshold_mb: float = 100.0
MinutesPerDay == 24 * 60  \* the date part of an ISO timestamp counts days

Pids == 1..NumPids
TrackedPids == 1..NumTracked
\* None (proc.info['memory_percent'] of a process whose reading was denied);
\* no number a reading can take
NoneVal == -1

\* timedelta(hours=h), in minutes
timedelta(h) == h * 60

\* Time that can pass between two readings of the clock by the sampler: the
\* sleep is a lower bound, a suspended or busy host makes it longer.
Elapsed == {SleepMinutes, timedelta(ProcessHours), timedelta(GlobalHours)}

\* datetime.isoformat(): the text splits the instant into a date and a time
\* of day; datetime.fromisoformat() parses the two parts back.
isoformat(t) == [date |-> t \div MinutesPerDay, time |-> t % MinutesPerDay]
fromisoformat(s) == s.date * MinutesPerDay + s.time

\* ------------------------------------------------------------------------
\* Sequence helpers
\* ------------------------------------------------------------------------
\* the comprehension condition of the prune and of get_history:
\* datetime.fromisoformat(x['timestamp']) > cutoff
NewerOrEqual(x, cutoff) == fromisoformat(x.timestamp) >= cutoff
Newer(x, cutoff) == fromisoformat(x.timestamp) > cutoff

RECURSIVE KeepNewerReversedFrom(_, _, _)
KeepNewerReversedFrom(s, i, cutoff) ==
    IF i > Len(s) THEN <<>>
    ELSE IF Newer(s[i], cutoff)
         THEN KeepNewerReversedFrom(s, i + 1, cutoff) \o <<s[i]>>
         ELSE KeepNewerReversedFrom(s, i + 1, cutoff)
\* [x for x in s if datetime.fromisoformat(x['timestamp']) > cutoff]
RECURSIVE KeepNewerFrom(_, _, _)
KeepNewerFrom(s, i, cutoff) ==
    IF i > Len(s) THEN <<>>
    ELSE IF Newer(s[i], cutoff) THEN <<s[i]>> \o KeepNewerFrom(s, i + 1, cutoff)
         ELSE KeepNewerFrom(s, i + 1, cutoff)
KeepNewerButOldest(s, cutoff) ==
    IF KeepNewerFrom(s, 1, cutoff) = <<>> THEN <<>>
    ELSE Tail(KeepNewerFrom(s, 1, cutoff))
KeepNewer(s, cutoff) == KeepNewerFrom(s, 1, cutoff)

\* s[-n:]
LastN(s, n) == IF Len(s) <= n THEN s ELSE SubSeq(s, Len(s) - n + 1, Len(s))

\* ------------------------------------------------------------------------
\* State
\* ------------------------------------------------------------------------
VARIABLES
    clock,              \* datetime.now(), minutes
    memory_history,     \* the four global series
    cpu_history,
    disk_io_history,
    network_history,
    process_history,    \* defaultdict(list): entries in insertion order
    host,               \* the pids psutil.process_iter can yield on this host
    os_procs,           \* what psutil.Process(pid) finds for each pid
    s_pc,               \* sampler thread: position in background_monitor
    cycles,             \* cycles started so far
    current_time,       \* sampler local
    s_last,             \* process_iter: last pid yielded in this cycle
    s_proc,             \* sampler local: proc.info
    s_keys,             \* sampler local: list(process_history.keys())
    s_failed,           \* history: the reading that raised in this cycle
    pruned,             \* history: a prune removed a sample since the last read
    h_pc,               \* get_history thread
    h_hours,
    h_cutoff,
    h_i,                \* index of the running comprehension's list iterator
    h_data,             \* the 'data' dict under construction
    h_status,
    h_seen,             \* history: elements each comprehension of this read visited
    h_base,             \* history: contents of the series while it is being read
    h_quiet,            \* history: no series changed under the running read
    h_mixed,            \* history: a comprehension returned a mixture
    h_lens,             \* history: h_seen of the previous successful read
    l_pc,               \* analyze_memory_leak thread
    l_threshold,
    l_iter,             \* dictionary iterator of "for pid in process_history"
    l_pid,
    l_trend,            \* memory_trend
    l_result,           \* suspicious_processes
    l_error,            \* exception that left analyze_memory_leak, if any
    l_visited,          \* history: pids the loop body ran for
    l_stable,           \* history: pids in the table during the whole call
    ALERTS,             \* app.config['ALERTS'] of the API process
    a_config,           \* configure_alerts: request.get_json() of the last request
    a_resp,             \* configure_alerts: the last response
    a_old,              \* history: ALERTS when the last request arrived
    alert_config,       \* st.session_state.alert_config of the dashboard session
    d_pc,               \* dashboard script: position in run()
    d_widgets,          \* dashboard: what the sidebar widgets return in this run
    d_old,              \* history: alert_config when this run started
    d_cards             \* dashboard: status class of the three metric cards

alertVars == <<ALERTS, a_config, a_resp, a_old>>
dashVars == <<alert_config, d_pc, d_widgets, d_old, d_cards>>
configVars == <<alertVars, dashVars>>
storeVars == <<memory_history, cpu_history, disk_io_history, network_history,
               process_history>>
samplerVars == <<s_pc, cycles, current_time, s_last, s_proc, s_keys, s_failed>>
historyLocals == <<h_pc, h_hours, h_cutoff, h_i, h_data, h_status, h_seen, h_lens,
                   h_mixed>>
historyVars == <<historyLocals, h_base, h_quiet>>
leakLocals == <<l_pc, l_threshold, l_iter, l_pid, l_trend, l_result, l_error,
                l_visited>>
leakVars == <<leakLocals, l_stable>>
vars == <<clock, host, os_procs, configVars, storeVars, samplerVars, pruned, historyVars, leakVars>>

\* ------------------------------------------------------------------------
\* process_history: a dict keeps its entries in insertion order; a deleted
\* key leaves an unused slot behind, a new key takes a new slot at the end.
\* ------------------------------------------------------------------------
LiveSlots(d) == {i \in 1..Len(d) : d[i].live}
\* len(process_history)
Used(d) == Cardinality(LiveSlots(d))
\* pid in process_history
HasKey(d, pid) == \E i \in LiveSlots(d) : d[i].pid = pid
SlotOf(d, pid) == CHOOSE i \in LiveSlots(d) : d[i].pid = pid
\* process_history[pid] on a defaultdict(list): a missing key is inserted
\* with an empty list (__missing__)
GetItem(d, pid) ==
    IF HasKey(d, pid) THEN d
    ELSE Append(d, [pid |-> pid, live |-> TRUE, series |-> <<>>])
\* the list stored under pid (after GetItem)
SeriesOf(d, pid) == d[SlotOf(d, pid)].series
\* process_history[pid] = value
SetItem(d, pid, value) ==
    IF HasKey(d, pid)
    THEN [d EXCEPT ![SlotOf(d, pid)].series = value]
    ELSE Append(d, [pid |-> pid, live |-> TRUE, series |-> value])
\* del process_history[pid]
DelItem(d, pid) == [d EXCEPT ![SlotOf(d, pid)].live = FALSE]
\* list(process_history.keys())
RECURSIVE KeysFrom(_, _)
KeysFrom(d, i) ==
    IF i > Len(d) THEN <<>>
    ELSE IF d[i].live THEN <<d[i].pid>> \o KeysFrom(d, i + 1)
         ELSE KeysFrom(d, i + 1)
Keys(d) == KeysFrom(d, 1)
KeySet(d) == {d[i].pid : i \in LiveSlots(d)}

\* the four module-level lists, by the key get_history returns them under
SeriesNamed(kind) ==
    CASE kind = "memory" -> memory_history
      [] kind = "cpu" -> cpu_history
      [] kind = "disk_io" -> disk_io_history
      [] kind = "network" -> network_history

\* ------------------------------------------------------------------------
\* Samples
\* ------------------------------------------------------------------------
\* The readings a global sample carries (percent, used, read_bytes, ...) are
\* never inspected by any operation of the store; a sample is its kind and
\* its timestamp text.
ResourceSample(kind, t) == [kind |-> kind, timestamp |-> isoformat(t)]
ProcessSample(t, mp) == [timestamp |-> isoformat(t), memory_percent |-> mp]

\* proc.info['memory_percent']: a number, or None when the reading of the
\* process was denied
ProcReadings == {10, NoneVal}

\* ------------------------------------------------------------------------
\* Initial state: the module-level lists are empty, no request is running
\* ------------------------------------------------------------------------
NoIter == [used |-> 0, pos |-> 0, len |-> 0]
NoData == [memory |-> <<>>, cpu |-> <<>>, disk_io |-> <<>>, network |-> <<>>]
NoLens == [memory |-> -1, cpu |-> -1, disk_io |-> -1, network |-> -1]

\* the alert configuration both programs start with:
\* app.config['ALERTS'] (os.py) and st.session_state.alert_config (dashboard)
DefaultAlerts ==
    [cpu_threshold |-> 80, memory_threshold |-> 80, disk_threshold |-> 90,
     enabled |-> TRUE]
required_fields_two == {"cpu_threshold", "memory_threshold"}
\* required_fields = ['cpu_threshold', 'memory_threshold', 'disk_threshold']
required_fields == {"cpu_threshold", "memory_threshold", "disk_threshold"}

\* A value of the JSON body of a configuration request: a field can be
\* absent, a number, a string that spells a number, another string, or null.
Absent == [type |-> "absent", val |-> 0]
JsonNumber(n) == [type |-> "number", val |-> n]
JsonNumeral(n) == [type |-> "numeral", val |-> n]
JsonText == [type |-> "text", val |-> 0]
JsonNull == [type |-> "null", val |-> 0]

NoPayload ==
    [cpu_threshold |-> Absent, memory_threshold |-> Absent,
     disk_threshold |-> Absent, enabled |-> "absent"]
NoResponse == [code |-> 0, status |-> "none"]
NoCards == [cpu |-> "none", memory |-> "none", disk |-> "none"]

\* no configuration request has been served, the dashboard script is about
\* to run for the first time
InitConfig ==
    /\ ALERTS = DefaultAlerts /\ a_config = NoPayload /\ a_resp = NoResponse
    /\ a_old = DefaultAlerts
    /\ alert_config = DefaultAlerts /\ d_pc = "start"
    /\ d_widgets = DefaultAlerts /\ d_old = DefaultAlerts /\ d_cards = NoCards

InitReaders ==
    /\ InitConfig
    /\ pruned = FALSE
    /\ h_pc = "idle" /\ h_hours = 0 /\ h_cutoff = 0 /\ h_i = 0
    /\ h_data = NoData /\ h_status = "none"
    /\ h_seen = NoLens /\ h_base = {} /\ h_quiet = TRUE /\ h_mixed = FALSE
    /\ h_lens = NoLens
    /\ l_pc = "idle" /\ l_threshold = 0 /\ l_iter = NoIter /\ l_pid = 0
    /\ l_trend = <<>> /\ l_result = <<>> /\ l_error = "none"
    /\ l_visited = <<>> /\ l_stable = {}

InitSampler ==
    /\ s_pc = "loop" /\ cycles = 0 /\ current_time = 0 /\ s_last = 0
    /\ s_proc = [pid |-> 0, memory_percent |-> NoneVal] /\ s_keys = <<>>
    /\ s_failed = "none"

EmptyStore ==
    /\ clock = 0
    /\ memory_history = <<>> /\ cpu_history = <<>>
    /\ disk_io_history = <<>> /\ network_history = <<>>
    /\ process_history = <<>>
    /\ InitSampler
    /\ InitReaders

\* psutil.Process(pid): the process is gone (NoSuchProcess), or it refuses
\* to be read (AccessDenied), or memory_info().rss is a number of bytes
MB == 1024 * 1024
ProcStates == {[state |-> "gone", rss |-> 0], [state |-> "denied", rss |-> 0],
               [state |-> "ok", rss |-> 100 * MB], [state |-> "ok", rss |-> 150 * MB]}
AllGone == [p \in Pids \cup TrackedPids |-> [state |-> "gone", rss |-> 0]]

\* a host whose processes the provider enumerates
Init == EmptyStore /\ host = Pids /\ os_procs = AllGone

\* a host on which the provider enumerates no process
InitNoProcess == EmptyStore /\ host = {} /\ os_procs = AllGone

\* ------------------------------------------------------------------------
\* The sampler thread: background_monitor
\* ------------------------------------------------------------------------
\* cutoff_time = current_time - timedelta(hours=24)
cutoff_time(t) == t - timedelta(GlobalHours)
process_cutoff_day(t) == t - timedelta(GlobalHours)
\* process_cutoff = current_time - timedelta(hours=1)
process_cutoff(t) == t - timedelta(ProcessHours)

\* a prune that drops at least one sample is remembered for the readers
NotePrune(before, after) == pruned' = (pruned \/ Len(after) < Len(before))

\* remember every content the series `kind` has while a get_history call
\* reads it, and whether a series changed at all during the call
NoteBase(kind, before, after) ==
    /\ h_base' = IF h_pc = kind THEN h_base \cup {after} ELSE h_base
    /\ h_quiet' = (h_quiet /\ (h_pc = "idle" \/ after = before))

\* remember the pids that stay in process_history during a whole call of
\* analyze_memory_leak
NoteKeys(after) ==
    l_stable' = IF l_pc \in {"idle", "returned", "raised"}
                THEN l_stable ELSE l_stable \cap KeySet(after)

\* while True: ... current_time = datetime.now()
S_Now ==
    /\ s_pc = "loop"
    /\ cycles < MaxCycles
    /\ cycles' = cycles + 1
    /\ current_time' = clock
    /\ s_failed' = "none"
    /\ s_pc' = "memory"
    /\ UNCHANGED <<clock, host, os_procs, configVars, storeVars, s_last, s_proc, s_keys, pruned,
                   historyVars, leakVars>>

\* One global reading and its append (lines 113-143): the provider call
\* returns and the sample is appended, or it raises and control goes to the
\* handler of line 172.
Reads(kind, series, next) ==
    /\ s_pc = kind
    /\ \E ok \in BOOLEAN :
        IF ok
        THEN /\ series' = Append(series, ResourceSample(kind, current_time))
             /\ s_pc' = next
             /\ UNCHANGED s_failed
        ELSE /\ s_pc' = "except"
             /\ s_failed' = kind
             /\ UNCHANGED series
    /\ NoteBase(kind, series, series')
    /\ UNCHANGED <<clock, host, os_procs, configVars, process_history, cycles, current_time, s_proc, s_keys,
                   pruned, historyLocals, leakVars>>

\* memory = psutil.virtual_memory(); memory_history.append({...})
S_Memory ==
    /\ Reads("memory", memory_history, "cpu")
    /\ UNCHANGED <<cpu_history, disk_io_history, network_history, s_last>>

\* cpu_percent = psutil.cpu_percent(interval=1, percpu=True); cpu_history.append({...})
S_Cpu ==
    /\ Reads("cpu", cpu_history, "disk_io")
    /\ UNCHANGED <<memory_history, disk_io_history, network_history, s_last>>

\* disk_io = psutil.disk_io_counters(); disk_io_history.append({...})
S_DiskIo ==
    /\ Reads("disk_io", disk_io_history, "network")
    /\ UNCHANGED <<memory_history, cpu_history, network_history, s_last>>

\* network = psutil.net_io_counters(); network_history.append({...})
S_Network ==
    /\ Reads("network", network_history, "procs")
    /\ s_last' = 0
    /\ UNCHANGED <<memory_history, cpu_history, disk_io_history>>

\* for proc in psutil.process_iter(['pid', 'name', 'memory_percent']):
\* the provider yields the next live process (pids ascending), or none is left
S_ProcIter ==
    /\ s_pc = "procs"
    /\ \E pid \in {p \in host : p > s_last} \cup {0} :
        IF pid = 0
        THEN /\ s_pc' = "prune_memory"
             /\ UNCHANGED <<s_last, s_proc>>
        ELSE \E mp \in ProcReadings :
             /\ s_last' = pid
             /\ s_proc' = [pid |-> pid, memory_percent |-> mp]
             /\ s_pc' = "proc_get"
    /\ UNCHANGED <<clock, host, os_procs, configVars, storeVars, cycles, current_time, s_keys, s_failed, pruned,
                   historyVars, leakVars>>

\* process_history[proc.info['pid']]   (the defaultdict lookup of line 148);
\* a psutil.NoSuchProcess / AccessDenied raised in the try body: continue
S_ProcGet ==
    /\ s_pc = "proc_get"
    /\ \/ /\ process_history' = GetItem(process_history, s_proc.pid)
          /\ s_pc' = "proc_append"
       \/ /\ s_pc' = "procs"
          /\ UNCHANGED process_history
    /\ NoteKeys(process_history')
    /\ UNCHANGED <<clock, host, os_procs, configVars, memory_history, cpu_history, disk_io_history,
                   network_history, cycles, current_time, s_last, s_proc, s_keys,
                   s_failed, pruned, historyVars, leakLocals>>

\* .append({'timestamp': ..., 'memory_percent': proc.info['memory_percent']})
S_ProcAppend ==
    /\ s_pc = "proc_append"
    /\ process_history' =
         SetItem(process_history, s_proc.pid,
                 Append(SeriesOf(process_history, s_proc.pid),
                        ProcessSample(current_time, s_proc.memory_percent)))
    /\ s_pc' = "procs"
    /\ UNCHANGED <<clock, host, os_procs, configVars, memory_history, cpu_history, disk_io_history,
                   network_history, cycles, current_time, s_last, s_proc, s_keys,
                   s_failed, pruned, historyVars, leakVars>>

\* <series>[:] = [x for x in <series> if ... > cutoff_time]   (lines 157-160)
\* The sampler is the only writer, so the comprehension and the slice
\* assignment that replaces the list's contents in place are one step.
Prunes(at, kind, series, next) ==
    /\ s_pc = at
    /\ series' = KeepNewer(series, cutoff_time(current_time))
    /\ NotePrune(series, series')
    /\ NoteBase(kind, series, series')
    /\ s_pc' = next
    /\ UNCHANGED <<clock, host, os_procs, configVars, process_history, cycles, current_time, s_last, s_proc,
                   s_keys, s_failed, historyLocals, leakVars>>

S_PruneMemory ==
    /\ Prunes("prune_memory", "memory", memory_history, "prune_cpu")
    /\ UNCHANGED <<cpu_history, disk_io_history, network_history>>

S_PruneCpu ==
    /\ Prunes("prune_cpu", "cpu", cpu_history, "prune_disk_io")
    /\ UNCHANGED <<memory_history, disk_io_history, network_history>>

S_PruneDiskIo ==
    /\ Prunes("prune_disk_io", "disk_io", disk_io_history, "prune_network")
    /\ UNCHANGED <<memory_history, cpu_history, network_history>>

S_PruneNetwork ==
    /\ Prunes("prune_network", "network", network_history, "prune_keys")
    /\ UNCHANGED <<memory_history, cpu_history, disk_io_history>>

\* for pid in list(process_history.keys()):
S_PruneKeys ==
    /\ s_pc = "prune_keys"
    /\ s_keys' = Keys(process_history)
    /\ s_pc' = "prune_proc"
    /\ UNCHANGED <<clock, host, os_procs, configVars, storeVars, cycles, current_time, s_last, s_proc, s_failed,
                   pruned, historyVars, leakVars>>

\* process_history[pid] = [x for x in process_history[pid] if ... > process_cutoff]
\* or the loop is over and time.sleep(60) is next
S_PruneProc ==
    /\ s_pc = "prune_proc"
    /\ IF s_keys = <<>>
       THEN /\ s_pc' = "sleep"
            /\ UNCHANGED <<process_history, pruned, l_stable>>
       ELSE LET pid == Head(s_keys)
                old == SeriesOf(GetItem(process_history, pid), pid)
                new == KeepNewer(old, process_cutoff(current_time))
            IN /\ process_history' = SetItem(process_history, pid, new)
               /\ NotePrune(old, new)
               /\ NoteKeys(process_history')
               /\ s_pc' = "prune_del"
    /\ UNCHANGED <<clock, host, os_procs, configVars, memory_history, cpu_history, disk_io_history,
                   network_history, cycles, current_time, s_last, s_proc, s_keys,
                   s_failed, historyVars, leakLocals>>

\* if not process_history[pid]: del process_history[pid]
S_PruneDel ==
    /\ s_pc = "prune_del"
    /\ LET pid == Head(s_keys)
           d == GetItem(process_history, pid)
       IN process_history' = IF SeriesOf(d, pid) = <<>> THEN DelItem(d, pid) ELSE d
    /\ NoteKeys(process_history')
    /\ s_keys' = Tail(s_keys)
    /\ s_pc' = "prune_proc"
    /\ UNCHANGED <<clock, host, os_procs, configVars, memory_history, cpu_history, disk_io_history,
                   network_history, cycles, current_time, s_last, s_proc, s_failed,
                   pruned, historyVars, leakLocals>>

\* A request lasts far less than the sampling period: one that runs while
\* the sampler sleeps has returned when the sleep ends.
NoRequest == h_pc = "idle" /\ l_pc = "idle"

\* time.sleep(60)  # Update every minute
S_Sleep ==
    /\ s_pc = "sleep"
    /\ NoRequest
    /\ \E d \in Elapsed : clock' = clock + d
    /\ s_pc' = "loop"
    /\ UNCHANGED <<host, os_procs, configVars, storeVars, cycles, current_time, s_last, s_proc, s_keys,
                   s_failed, pruned, historyVars, leakVars>>

S_ExceptLeaves ==
    /\ s_pc = "except"
    /\ s_pc' = "exit"
    /\ UNCHANGED <<clock, host, os_procs, configVars, storeVars, cycles, current_time, s_last, s_proc, s_keys,
                   s_failed, pruned, historyVars, leakVars>>

\* except Exception as e: logger.error(...); time.sleep(60)  # Wait before retrying
S_Except ==
    /\ s_pc = "except"
    /\ NoRequest
    /\ \E d \in Elapsed : clock' = clock + d
    /\ s_pc' = "loop"
    /\ UNCHANGED <<host, os_procs, configVars, storeVars, cycles, current_time, s_last, s_proc, s_keys,
                   s_failed, pruned, historyVars, leakVars>>

Sampler ==
    \/ S_Now \/ S_Memory \/ S_Cpu \/ S_DiskIo \/ S_Network
    \/ S_ProcIter \/ S_ProcGet \/ S_ProcAppend
    \/ S_PruneMemory \/ S_PruneCpu \/ S_PruneDiskIo \/ S_PruneNetwork
    \/ S_PruneKeys \/ S_PruneProc \/ S_PruneDel
    \/ S_Sleep \/ S_Except

\* The sampler alone
SpecSampler == Init /\ [][Sampler]_vars

\* The sampler is a thread of its own: the scheduler lets it run, and a
\* sleep returns.
SpecSamplerFair == SpecSampler /\ WF_vars(Sampler)

Kinds == {"memory", "cpu", "disk_io", "network"}

\* every sample of the series is at most `window` old at time now
AllWithin(series, now, window) ==
    \A i \in 1..Len(series) : now - fromisoformat(series[i].timestamp) <= window

\* the cycle of the sampler has ended
CycleEnded == s_pc \in {"sleep", "except"}

\* C1: when the prune step of a cycle taken at time now = current_time is
\* done, every sample of the four global series is at most 24 hours older
\* than now and every sample of every per-process series at most 1 hour.
C1_PruneBound ==
    s_pc = "sleep" =>
        /\ \A kind \in Kinds :
              AllWithin(SeriesNamed(kind), current_time, timedelta(GlobalHours))
        /\ \A i \in LiveSlots(process_history) :
              AllWithin(process_history[i].series, current_time,
                        timedelta(ProcessHours))

\* a cycle has pruned samples away and kept others, global and per-process
C1_Witness ==
    /\ s_pc = "sleep"
    /\ pruned
    /\ cycles = MaxCycles
    /\ Len(memory_history) = 2
    /\ \E i \in LiveSlots(process_history) : Len(process_history[i].series) = 2

\* C5: a reading that fails in a cycle skips only its own sample: when the
\* cycle ends, every other global series ends with a sample of this cycle
\* and every series has been pruned with this cycle's cutoffs.
C5_FailureSkipsOneItem ==
    CycleEnded =>
        /\ \A kind \in Kinds \ {s_failed} :
              /\ SeriesNamed(kind) # <<>>
              /\ SeriesNamed(kind)[Len(SeriesNamed(kind))].timestamp
                    = isoformat(current_time)
        /\ \A kind \in Kinds :
              KeepNewer(SeriesNamed(kind), cutoff_time(current_time))
                = SeriesNamed(kind)
        /\ \A i \in LiveSlots(process_history) :
              KeepNewer(process_history[i].series, process_cutoff(current_time))
                = process_history[i].series

\* C6: an error raised in a cycle is caught: the only step out of the
\* handler sleeps at least one period and returns to the head of the loop,
\* and under fair scheduling the head of the loop is reached again.
C6_SelfHealing ==
    /\ [][s_pc = "except" =>
            (s_pc' = "loop" /\ clock' >= clock + SleepMinutes)]_vars
    /\ (s_pc = "except") ~> (s_pc = "loop")

\* a cycle that failed has been followed by the start of the next cycle
C6_Witness == s_failed = "none" /\ cycles = 2 /\ Len(memory_history) = 0

\* ------------------------------------------------------------------------
\* A request thread: get_history
\* ------------------------------------------------------------------------
\* request.args.get('hours', 24)
Hours == {ProcessHours, GlobalHours}

\* the class attributes of datetime that the module looks up
DatetimeAttrs == {"now", "fromisoformat", "fromtimestamp"}

\* the attribute each comprehension of get_history calls on datetime
\* (lines 356, 358, 360, 362)
ParserOf(kind) ==
    CASE kind = "memory" -> "fromisoformat"
      [] kind = "cpu" -> "fromisoformat"
      [] kind = "disk_io" -> "fronisoformat"
      [] kind = "network" -> "fronisoformat"

\* hours = int(request.args.get('hours', 24))
\* cutoff_time = datetime.now() - timedelta(hours=hours)
H_Start ==
    /\ h_pc = "idle"
    /\ \E hours \in Hours :
        /\ h_hours' = hours
        /\ h_cutoff' = clock - timedelta(hours)
    /\ h_i' = 1
    /\ h_data' = NoData
    /\ h_status' = "running"
    /\ h_seen' = NoLens
    /\ h_base' = {memory_history}
    /\ h_quiet' = TRUE
    /\ h_mixed' = FALSE
    /\ h_pc' = "memory"
    /\ UNCHANGED <<clock, host, os_procs, configVars, storeVars, samplerVars, pruned, h_lens, leakVars>>

\* the list is the filter of one of the contents the series had
Unmixed(list, contents, cutoff) ==
    \E b \in contents : list = KeepNewer(b, cutoff)

\* One step of the list iterator of
\*   [x for x in <series> if datetime.<parser>(x['timestamp']) > cutoff_time]
\* over the live list: the iterator is exhausted when its index has reached
\* the length the list has now; otherwise the element at the index is tested.
\* Looking up an attribute datetime does not have raises AttributeError,
\* which the handler of line 365 turns into the error response.
Comprehension(kind, next) ==
    LET series == SeriesNamed(kind) IN
    /\ h_pc = kind
    /\ IF h_i > Len(series)
       THEN /\ h_seen' = [h_seen EXCEPT ![kind] = h_i - 1]
            /\ h_i' = 1
            /\ h_pc' = next
            /\ h_status' = IF next = "done" THEN "success" ELSE h_status
            /\ h_base' = IF next = "done" THEN {} ELSE {SeriesNamed(next)}
            /\ h_mixed' = (h_mixed \/ ~Unmixed(h_data[kind], h_base, h_cutoff))
            /\ UNCHANGED h_data
       ELSE IF ParserOf(kind) \notin DatetimeAttrs
       THEN /\ h_status' = "error"
            /\ h_pc' = "done"
            /\ h_base' = {}
            /\ UNCHANGED <<h_i, h_data, h_seen, h_mixed>>
       ELSE /\ h_data' = IF Newer(series[h_i], h_cutoff)
                         THEN [h_data EXCEPT ![kind] = Append(@, series[h_i])]
                         ELSE h_data
            /\ h_i' = h_i + 1
            /\ UNCHANGED <<h_pc, h_status, h_seen, h_base, h_mixed>>
    /\ UNCHANGED <<clock, host, os_procs, configVars, storeVars, samplerVars, pruned, h_hours, h_cutoff,
                   h_quiet, h_lens, leakVars>>

H_Memory == Comprehension("memory", "cpu")
H_Cpu == Comprehension("cpu", "disk_io")
H_DiskIo == Comprehension("disk_io", "network")
H_Network == Comprehension("network", "done")

\* return jsonify({...})  /  return jsonify({'status': 'error', ...}), 500
\* The thread is free for the next request; its locals are gone.
H_Return ==
    /\ h_pc = "done"
    /\ h_pc' = "idle"
    /\ h_lens' = IF h_status = "success" THEN h_seen ELSE h_lens
    /\ pruned' = FALSE
    /\ h_hours' = 0 /\ h_cutoff' = 0 /\ h_i' = 0 /\ h_data' = NoData
    /\ h_status' = "none" /\ h_seen' = NoLens /\ h_quiet' = TRUE /\ h_mixed' = FALSE
    /\ UNCHANGED <<clock, host, os_procs, configVars, storeVars, samplerVars, h_base, leakVars>>

History == H_Start \/ H_Memory \/ H_Cpu \/ H_DiskIo \/ H_Network \/ H_Return

\* The sampler and one request thread serving get_history
\* on a host without enumerable processes (process_history stays empty)
NextHistory ==
    \/ S_Now \/ S_Memory \/ S_Cpu \/ S_DiskIo \/ S_Network \/ S_ProcIter
    \/ S_PruneMemory \/ S_PruneCpu \/ S_PruneDiskIo \/ S_PruneNetwork
    \/ S_PruneKeys \/ S_PruneProc \/ S_Sleep \/ S_Except
    \/ History
SpecHistory == InitNoProcess /\ [][NextHistory]_vars

\* C2: no read fails, and without a prune since the previous read a read
\* sees no series shorter than the previous read saw it.
C2_ReadsNeverFailNorShrink ==
    h_pc = "done" =>
        /\ h_status = "success"
        /\ ~pruned => \A kind \in Kinds : h_seen[kind] >= h_lens[kind]

\* C3: the list a read builds from a series is the filter of one content
\* the series had during the read, never a mixture of two contents.
C3_NoMixedRead == ~h_mixed

\* the window of the running read matches no sample of any global series
NoMatch == \A kind \in Kinds : KeepNewer(SeriesNamed(kind), h_cutoff) = <<>>

\* C7: a read whose window matches no retained sample succeeds and returns
\* four empty sequences.
C7_EmptyWindowSucceeds ==
    (h_pc = "done" /\ h_quiet /\ NoMatch) =>
        (h_status = "success" /\ h_data = NoData)

\* C8: a read returns, for each category, the samples of the series that
\* are newer than now - hours, in series order.
C8_HistoryIsWindow ==
    (h_pc = "done" /\ h_quiet) =>
        /\ h_status = "success"
        /\ \A kind \in Kinds :
              h_data[kind] = KeepNewer(SeriesNamed(kind), clock - timedelta(h_hours))

\* ------------------------------------------------------------------------
\* A request thread: SystemMonitor.analyze_memory_leak
\* ------------------------------------------------------------------------
\* threshold_mb
Thresholds == {DefaultThreshold, 150}

\* [x['memory_percent'] for x in samples]
PercentsOf(samples) == [i \in 1..Len(samples) |-> samples[i].memory_percent]

GreaterOrEqual(b, a) == b >= a
\* b > a
Greater(b, a) == b > a

\* all(b > a for a, b in zip(memory_trend, memory_trend[1:])): the pairs are
\* compared in order until one is not increasing; comparing None with a
\* number raises TypeError
RECURSIVE AllIncreasingFrom(_, _)
AllIncreasingFrom(trend, i) ==
    IF i >= Len(trend) THEN "true"
    ELSE IF trend[i] = NoneVal \/ trend[i + 1] = NoneVal THEN "TypeError"
    ELSE IF Greater(trend[i + 1], trend[i]) THEN AllIncreasingFrom(trend, i + 1)
    ELSE "false"
AllIncreasing(trend) == AllIncreasingFrom(trend, 1)

\* memory_mb = process.memory_info().rss / (1024 * 1024), as a mixed number
MemoryMb(rss) == [whole |-> rss \div MB, part |-> rss % MB]
\* memory_mb > threshold_mb
Exceeds(memory_mb, threshold_mb) ==
    \/ memory_mb.whole > threshold_mb
    \/ memory_mb.whole = threshold_mb /\ memory_mb.part > 0

\* process.name()
NameOf(pid) == <<"process", pid>>

\* suspicious_processes = []; for pid in process_history:   (the iterator
\* remembers the size of the dict, its position and how many keys are left)
L_Start ==
    /\ l_pc = "idle"
    /\ \E threshold \in Thresholds : l_threshold' = threshold
    /\ l_result' = <<>>
    /\ l_iter' = [used |-> Used(process_history), pos |-> 1,
                  len |-> Used(process_history)]
    /\ l_pid' = 0
    /\ l_trend' = <<>>
    /\ l_error' = "none"
    /\ l_visited' = <<>>
    /\ l_stable' = KeySet(process_history)
    /\ l_pc' = "iter"
    /\ UNCHANGED <<clock, host, os_procs, configVars, storeVars, samplerVars, pruned, historyVars>>

\* the next step of "for pid in process_history": a dict iterator raises
\* RuntimeError when the dict has another size than at its creation or when
\* it finds more keys than the dict had; it ends at the last slot.
L_Next ==
    /\ l_pc = "iter"
    /\ LET d == process_history
           rest == {i \in LiveSlots(d) : i >= l_iter.pos}
           slot == CHOOSE i \in rest : \A j \in rest : i <= j
       IN IF l_iter.used # Used(d)
          THEN /\ l_error' = "RuntimeError"
               /\ l_pc' = "raised"
               /\ UNCHANGED <<l_iter, l_pid, l_visited>>
          ELSE IF rest = {}
          THEN /\ l_pc' = "returned"
               /\ UNCHANGED <<l_iter, l_pid, l_visited, l_error>>
          ELSE IF l_iter.len = 0
          THEN /\ l_error' = "RuntimeError"
               /\ l_pc' = "raised"
               /\ UNCHANGED <<l_iter, l_pid, l_visited>>
          ELSE /\ l_pid' = d[slot].pid
               /\ l_iter' = [l_iter EXCEPT !.pos = slot + 1, !.len = @ - 1]
               /\ l_visited' = Append(l_visited, d[slot].pid)
               /\ l_pc' = "len"
               /\ UNCHANGED l_error
    /\ UNCHANGED <<clock, host, os_procs, configVars, storeVars, samplerVars, pruned, historyVars,
                   l_threshold, l_trend, l_result, l_stable>>

\* if len(process_history[pid]) >= 5:   (a lookup in the defaultdict)
L_Len ==
    /\ l_pc = "len"
    /\ process_history' = GetItem(process_history, l_pid)
    /\ l_pc' = IF Len(SeriesOf(process_history', l_pid)) >= TrendLen
               THEN "trend" ELSE "iter"
    /\ UNCHANGED <<clock, host, os_procs, configVars, memory_history, cpu_history,
                   disk_io_history, network_history, samplerVars, pruned,
                   historyVars, l_threshold, l_iter, l_pid, l_trend, l_result,
                   l_error, l_visited, l_stable>>

\* memory_trend = [x['memory_percent'] for x in process_history[pid][-5:]]
\* if all(b > a for a, b in zip(memory_trend, memory_trend[1:])):
\* (a second lookup, a slice that copies, then work on the copy)
L_Trend ==
    /\ l_pc = "trend"
    /\ process_history' = GetItem(process_history, l_pid)
    /\ l_trend' = PercentsOf(LastN(SeriesOf(process_history', l_pid), TrendLen))
    /\ LET verdict == AllIncreasing(l_trend')
       IN /\ l_pc' = CASE verdict = "true" -> "lookup"
                       [] verdict = "false" -> "iter"
                       [] verdict = "TypeError" -> "raised"
          /\ l_error' = IF verdict = "TypeError" THEN "TypeError" ELSE l_error
    /\ UNCHANGED <<clock, host, os_procs, configVars, memory_history, cpu_history,
                   disk_io_history, network_history, samplerVars, pruned,
                   historyVars, l_threshold, l_iter, l_pid, l_result,
                   l_visited, l_stable>>

\* try: process = psutil.Process(pid); memory_mb = ...; if memory_mb >
\* threshold_mb: suspicious_processes.append({...})
\* except psutil.NoSuchProcess: continue          (lines 92-103)
L_Lookup ==
    /\ l_pc = "lookup"
    /\ LET found == os_procs[l_pid]
           memory_mb == MemoryMb(found.rss)
       IN CASE found.state = "gone" ->
                 /\ l_pc' = "iter"
                 /\ UNCHANGED <<l_result, l_error>>
            [] found.state = "denied" ->
                 /\ l_error' = "AccessDenied"
                 /\ l_pc' = "raised"
                 /\ UNCHANGED l_result
            [] found.state = "ok" ->
                 /\ l_result' =
                      IF Exceeds(memory_mb, l_threshold)
                      THEN Append(l_result, [pid |-> l_pid, name |-> NameOf(l_pid),
                                             memory_mb |-> memory_mb,
                                             trend |-> l_trend])
                      ELSE l_result
                 /\ l_pc' = "iter"
                 /\ UNCHANGED l_error
    /\ UNCHANGED <<clock, host, os_procs, configVars, storeVars, samplerVars, pruned, historyVars,
                   l_threshold, l_iter, l_pid, l_trend, l_visited, l_stable>>

\* return suspicious_processes, or the exception leaves the function;
\* the thread is free for the next request
L_Return ==
    /\ l_pc \in {"returned", "raised"}
    /\ l_pc' = "idle"
    /\ l_threshold' = 0 /\ l_iter' = NoIter /\ l_pid' = 0 /\ l_trend' = <<>>
    /\ l_result' = <<>> /\ l_error' = "none" /\ l_visited' = <<>>
    /\ l_stable' = {}
    /\ UNCHANGED <<clock, host, os_procs, configVars, storeVars, samplerVars, pruned, historyVars>>

Leak == L_Start \/ L_Next \/ L_Len \/ L_Trend \/ L_Lookup \/ L_Return

\* ------------------------------------------------------------------------
\* Stores the sampler has filled, for the specifications that start from a
\* running system: one cycle a minute since minute 0, none of them failed.
\* ------------------------------------------------------------------------
\* the global series after n cycles at minutes 0 .. n-1
GlobalSeries(kind, n) == [i \in 1..n |-> ResourceSample(kind, i - 1)]

\* The n latest samples of a process whose memory_percent grows by one each
\* minute, except for the step after sample f (when f > 0), which is d.
ShapeSeries(last, n, f, d) ==
    [i \in 1..n |->
        ProcessSample(last - n + i,
                      10 + (i - 1) + (IF f > 0 /\ i > f THEN d - 1 ELSE 0))]

\* a process whose memory_percent stays at 10
Plateau(last, n) == [i \in 1..n |-> ProcessSample(last - n + i, 10)]

\* a process that has grown in every one of the last TrendLen cycles
Steady(last) == ShapeSeries(last, TrendLen, 0, 0)

Shapes(last) ==
    {ShapeSeries(last, n, f, d) : n \in 1..MaxSamples, f \in 0..MaxSamples, d \in {0, -1}}
    \cup {Plateau(last, TrendLen), <<>>}

\* the dict with one entry per pid that has samples, pids ascending
RECURSIVE TableFrom(_, _)
TableFrom(ser, p) ==
    IF p > NumTracked THEN <<>>
    ELSE (IF ser[p] = <<>> THEN <<>>
          ELSE <<[pid |-> p, live |-> TRUE, series |-> ser[p]]>>)
         \o TableFrom(ser, p + 1)

FilledGlobals(n) ==
    /\ memory_history = GlobalSeries("memory", n)
    /\ cpu_history = GlobalSeries("cpu", n)
    /\ disk_io_history = GlobalSeries("disk_io", n)
    /\ network_history = GlobalSeries("network", n)

\* The detector alone on a table the sampler has built in MaxSamples cycles:
\* one process with any of the shapes, every other process untracked or
\* growing steadily; each process gone, unreadable or readable.
InitDetect ==
    /\ clock = MaxSamples
    /\ host = TrackedPids
    /\ FilledGlobals(MaxSamples)
    /\ \E focus \in TrackedPids :
       \E shape \in Shapes(MaxSamples - 1) :
       \E others \in [TrackedPids \ {focus} -> {<<>>, Steady(MaxSamples - 1)}] :
          process_history =
             TableFrom([p \in TrackedPids |->
                           IF p = focus THEN shape ELSE others[p]], 1)
    /\ os_procs \in [Pids \cup TrackedPids -> ProcStates]
    /\ InitSampler
    /\ InitReaders

SpecDetect == InitDetect /\ [][Leak]_vars

\* The sampler and one request thread running the detector, from a store
\* the sampler has filled in TrendLen cycles.
InitLeak ==
    /\ clock = TrendLen
    /\ host = Pids
    /\ FilledGlobals(TrendLen)
    /\ process_history =
          TableFrom([p \in TrackedPids |->
                        IF p \in Pids THEN Steady(TrendLen - 1) ELSE <<>>], 1)
    /\ os_procs = [p \in Pids \cup TrackedPids |-> [state |-> "ok", rss |-> 150 * MB]]
    /\ InitSampler
    /\ InitReaders

NextLeak == Sampler \/ Leak
SpecLeak == InitLeak /\ [][NextLeak]_vars

\* the pids of the candidates in suspicious_processes
Reported == {l_result[k].pid : k \in 1..Len(l_result)}
Visited == {l_visited[k] : k \in 1..Len(l_visited)}

\* C4: the loop of the detector over the pids of the table does not fail,
\* runs for every pid that is in the table during the whole call, and runs
\* for no pid twice, whatever the sampler adds or deletes meanwhile.
C4_IterationIsSnapshot ==
    /\ l_error # "RuntimeError"
    /\ l_pc = "returned" => l_stable \subseteq Visited
    /\ \A j, k \in 1..Len(l_visited) : j # k => l_visited[j] # l_visited[k]

\* every value of the sequence is smaller than the next
Rising(v) == \A i \in 1..(Len(v) - 1) : v[i] < v[i + 1]

\* the last five memory_percent values of the pid in slot i
LastFive(i) == PercentsOf(LastN(process_history[i].series, TrendLen))

\* C9: a process whose last five memory_percent values are not strictly
\* increasing is in no result of the detector, whatever its resident memory
\* and the threshold.
C9_NoFalsePositive ==
    \A i \in LiveSlots(process_history) :
        (Len(process_history[i].series) >= TrendLen /\ ~Rising(LastFive(i)))
            => process_history[i].pid \notin Reported

\* the detector has returned a candidate, and has passed over a process of
\* 150 MB (threshold 100) whose last five values do not all increase
C9_Witness ==
    /\ l_pc = "returned"
    /\ l_threshold = DefaultThreshold
    /\ Reported # {}
    /\ \E i \in LiveSlots(process_history) :
          /\ Len(process_history[i].series) >= TrendLen
          /\ ~Rising(LastFive(i))
          /\ process_history[i].pid \in Visited \ Reported
          /\ os_procs[process_history[i].pid] = [state |-> "ok", rss |-> 150 * MB]

\* the pid has five samples or more, the last five increasing, its process
\* exists and its resident memory is above the threshold of the running call
Qualifies(pid) ==
    /\ HasKey(process_history, pid)
    /\ Len(SeriesOf(process_history, pid)) >= TrendLen
    /\ Rising(LastFive(SlotOf(process_history, pid)))
    /\ os_procs[pid].state # "gone"
    /\ Exceeds(MemoryMb(os_procs[pid].rss), l_threshold)

\* C10: when the detector is done, a pid is reported exactly once if it
\* qualifies and not at all if it does not, and its candidate carries the
\* resident memory in MB and the last five values.
C10_ReportsExactlyQualifying ==
    l_pc \in {"returned", "raised"} =>
        \A pid \in TrackedPids :
            LET hits == {k \in 1..Len(l_result) : l_result[k].pid = pid}
            IN /\ Cardinality(hits) = IF Qualifies(pid) THEN 1 ELSE 0
               /\ \A k \in hits :
                     /\ l_result[k].memory_mb = MemoryMb(os_procs[pid].rss)
                     /\ l_result[k].trend = LastFive(SlotOf(process_history, pid))

\* detect_memory_leaks: what the caller of /api/memory/leaks receives for the
\* call of analyze_memory_leak that has ended.  The route has no handler of
\* its own: an exception that leaves analyze_memory_leak ends the request
\* with the response of the 500 error handler.
detect_memory_leaks ==
    IF l_pc = "returned"
    THEN [code |-> 200, status |-> "success", suspicious_processes |-> l_result]
    ELSE [code |-> 500, status |-> "error", suspicious_processes |-> <<>>]

\* C11: when the lookup of a tracked pid fails (the process is gone or
\* refuses access), the leak report still succeeds, that pid is not in the
\* result, and the loop has run for every pid of the table.
C11_LookupFailuresAbsorbed ==
    l_pc \in {"returned", "raised"} =>
        /\ detect_memory_leaks.status = "success"
        /\ \A pid \in KeySet(process_history) :
              os_procs[pid].state # "ok" => pid \notin Reported
        /\ KeySet(process_history) \subseteq Visited

\* C15: a step that is not the sampler's (the sampler's position stays)
\* leaves the four global series, the process table and the alert
\* configuration as they are.
C15_QueriesReadOnly ==
    [][s_pc' = s_pc => UNCHANGED <<storeVars, ALERTS>>]_vars

\* ------------------------------------------------------------------------
\* The prune of one cycle (lines 155-168) as a function of the store
\* ------------------------------------------------------------------------
Store ==
    [memory |-> memory_history, cpu |-> cpu_history, disk_io |-> disk_io_history,
     network |-> network_history, process |-> process_history]

\* for pid in list(process_history.keys()): filter, then delete when empty
RECURSIVE PruneTableFrom(_, _, _)
PruneTableFrom(d, keys, now) ==
    IF keys = <<>> THEN d
    ELSE LET pid == Head(keys)
             kept == KeepNewer(SeriesOf(d, pid), process_cutoff(now))
             set == SetItem(d, pid, kept)
         IN PruneTableFrom(IF kept = <<>> THEN DelItem(set, pid) ELSE set,
                           Tail(keys), now)

\* lines 156-168 applied to a store at current_time = now
prune(st, now) ==
    [memory |-> KeepNewer(st.memory, cutoff_time(now)),
     cpu |-> KeepNewer(st.cpu, cutoff_time(now)),
     disk_io |-> KeepNewer(st.disk_io, cutoff_time(now)),
     network |-> KeepNewer(st.network, cutoff_time(now)),
     process |-> PruneTableFrom(st.process, Keys(st.process), now)]

C17_NoDanglingSeries ==
    \A i \in LiveSlots(process_history) : process_history[i].series # <<>>

\* the samples of the series whose timestamp is after the bound (strict), or
\* at or after the bound
Retained(series, bound, strict) ==
    LET Test(x) == IF strict THEN fromisoformat(x.timestamp) > bound
                   ELSE fromisoformat(x.timestamp) >= bound
    IN SelectSeq(series, Test)

\* every prune step of the sampler leaves exactly the samples Retained
\* selects with the window of the series: 24 hours for the global series,
\* 1 hour for the series of a process
PruneLeaves(strict) ==
    LET day == current_time - timedelta(GlobalHours)
        hour == current_time - timedelta(ProcessHours)
    IN /\ (s_pc = "prune_memory" /\ s_pc' = "prune_cpu") =>
             memory_history' = Retained(memory_history, day, strict)
       /\ (s_pc = "prune_cpu" /\ s_pc' = "prune_disk_io") =>
             cpu_history' = Retained(cpu_history, day, strict)
       /\ (s_pc = "prune_disk_io" /\ s_pc' = "prune_network") =>
             disk_io_history' = Retained(disk_io_history, day, strict)
       /\ (s_pc = "prune_network" /\ s_pc' = "prune_keys") =>
             network_history' = Retained(network_history, day, strict)
       /\ (s_pc = "prune_proc" /\ s_pc' = "prune_del") =>
             SeriesOf(process_history', Head(s_keys))
               = Retained(SeriesOf(process_history, Head(s_keys)), hour, strict)

\* C18 as stated: the prune drops exactly the samples with
\* timestamp < now - max_age; a sample at now - max_age exactly is retained.
C18_PruneKeepsBoundary == [][PruneLeaves(FALSE)]_vars

\* C18, amended: the prune drops exactly the samples with
\* timestamp <= now - max_age; a sample at now - max_age exactly is dropped,
\* every sample with timestamp > now - max_age is retained.
C18_PruneDropsBoundary == [][PruneLeaves(TRUE)]_vars

\* the prune of memory_history has just dropped a sample that was exactly
\* 24 hours old (cpu_history, not pruned yet, still holds its twin) and has
\* kept a newer one
C18_Witness ==
    /\ s_pc = "prune_cpu"
    /\ memory_history # <<>>
    /\ \E i \in 1..Len(cpu_history) :
          fromisoformat(cpu_history[i].timestamp) = cutoff_time(current_time)
    /\ \A j \in 1..Len(memory_history) :
          fromisoformat(memory_history[j].timestamp) > cutoff_time(current_time)

\* C19: every candidate in the result of the detector carries a trend of
\* exactly five values.
C19_TrendHasFiveValues ==
    \A k \in 1..Len(l_result) : Len(l_result[k].trend) = TrendLen

\* ------------------------------------------------------------------------
\* The API process: configure_alerts   (POST /api/alerts/configure)
\* ------------------------------------------------------------------------
\* the bodies a client can send: every field absent or of any JSON type
JsonValues == {Absent, JsonNumber(70), JsonNumeral(85), JsonText, JsonNull}
EnabledValues == {"absent", "true", "false"}
Payloads ==
    [cpu_threshold : JsonValues, memory_threshold : JsonValues,
     disk_threshold : JsonValues, enabled : EnabledValues]

\* all(field in config for field in required_fields)
Validates(config) == \A field \in required_fields : config[field].type # "absent"

\* float(config[field]): the subscript raises KeyError for a missing key;
\* float() takes a number or a string that spells one, raises ValueError for
\* another string and TypeError for None
float(config, field) ==
    CASE config[field].type = "absent" -> [raised |-> "KeyError", value |-> 0]
      [] config[field].type \in {"number", "numeral"} ->
            [raised |-> "none", value |-> config[field].val]
      [] config[field].type = "text" -> [raised |-> "ValueError", value |-> 0]
      [] config[field].type = "null" -> [raised |-> "TypeError", value |-> 0]

GetEnabledOrFalse(config) == config.enabled = "true"
\* config.get('enabled', True)
GetEnabled(config) == config.enabled # "false"

\* One request, from request.get_json() to the response.  The new dict is
\* built first (lines 385-388) and stored by one assignment (line 384), so
\* an exception from float() leaves app.config['ALERTS'] as it was and ends
\* in the handler of line 396.
configure_alerts ==
    /\ \E config \in Payloads :
        LET cpu == float(config, "cpu_threshold")
            memory == float(config, "memory_threshold")
            disk == float(config, "disk_threshold")
        IN /\ a_config' = config
           /\ a_old' = ALERTS
           /\ IF ~Validates(config)
              THEN /\ a_resp' = [code |-> 400, status |-> "error"]
                   /\ UNCHANGED ALERTS
              ELSE IF {cpu.raised, memory.raised, disk.raised} # {"none"}
              THEN /\ a_resp' = [code |-> 500, status |-> "error"]
                   /\ UNCHANGED ALERTS
              ELSE /\ ALERTS' = [cpu_threshold |-> cpu.value,
                                 memory_threshold |-> memory.value,
                                 disk_threshold |-> disk.value,
                                 enabled |-> GetEnabled(config)]
                   /\ a_resp' = [code |-> 200, status |-> "success"]
    /\ UNCHANGED <<clock, host, os_procs, dashVars, storeVars, samplerVars, pruned,
                   historyVars, leakVars>>

\* Configuration requests, one after the other
SpecAlerts == InitNoProcess /\ [][configure_alerts]_vars

ThresholdFields == {"cpu_threshold", "memory_threshold", "disk_threshold"}

\* the answer to a request that fails validation
ValidationError == [code |-> 400, status |-> "error"]

\* C13: a write that lacks one of the three thresholds is answered with the
\* validation error and leaves the stored configuration as it was.
C13_MissingFieldRejected ==
    (a_resp # NoResponse /\ \E f \in ThresholdFields : a_config[f] = Absent)
        => (a_resp = ValidationError /\ ALERTS = a_old)

\* a write without disk_threshold was rejected after an earlier write had
\* replaced the defaults
C13_Witness ==
    /\ a_resp = ValidationError
    /\ a_config.cpu_threshold = JsonNumber(70)
    /\ a_config.memory_threshold = JsonNumber(70)
    /\ a_config.disk_threshold = Absent
    /\ ALERTS = a_old
    /\ ALERTS # DefaultAlerts

\* C20: a write with the three thresholds present, one of them not a number
\* (a string that spells none, or null), is answered like a write with a
\* missing field and leaves the stored configuration as it was.
C20_NonNumericRejected ==
    (/\ a_resp # NoResponse
     /\ \A f \in ThresholdFields : a_config[f] # Absent
     /\ \E f \in ThresholdFields : a_config[f] \in {JsonText, JsonNull})
        => (a_resp = ValidationError /\ ALERTS = a_old)

\* ------------------------------------------------------------------------
\* The dashboard session: SystemMonitorDashboard.run
\* ------------------------------------------------------------------------
\* what the sidebar widgets can return: the checkbox a boolean, each slider
\* a value of its range
SliderValues == {50, 80, 90}
WidgetStates ==
    [cpu_threshold : SliderValues, memory_threshold : SliderValues,
     disk_threshold : SliderValues, enabled : BOOLEAN]

\* usage percentages the provider can report
Readings == {0, 50, 85, 95}

\* status_class = 'warning' if warning_threshold and current_value and
\*                current_value > warning_threshold else 'success'
create_metric_card(warning_threshold, current_value) ==
    IF warning_threshold # 0 /\ current_value # 0
       /\ current_value > warning_threshold
    THEN "warning" ELSE "success"

\* run(): the script starts, the user's widget states are what the sidebar
\* calls of this run will return
D_Run ==
    /\ d_pc = "start"
    /\ \E w \in WidgetStates : d_widgets' = w
    /\ d_old' = alert_config
    /\ d_cards' = NoCards
    /\ d_pc' = "enabled"
    /\ UNCHANGED <<clock, host, os_procs, alertVars, alert_config, storeVars, samplerVars,
                   pruned, historyVars, leakVars>>

\* alert_config['enabled'] = st.sidebar.checkbox(...); if alert_config['enabled']:
D_Enabled ==
    /\ d_pc = "enabled"
    /\ alert_config' = [alert_config EXCEPT !.enabled = d_widgets.enabled]
    /\ d_pc' = IF d_widgets.enabled THEN "cpu" ELSE "plot"
    /\ UNCHANGED <<clock, host, os_procs, alertVars, d_widgets, d_old, d_cards, storeVars,
                   samplerVars, pruned, historyVars, leakVars>>

\* one slider assignment of configure_alerts (lines 286-300)
SetsThreshold(at, field, next) ==
    /\ d_pc = at
    /\ alert_config' = [alert_config EXCEPT ![field] = d_widgets[field]]
    /\ d_pc' = next
    /\ UNCHANGED <<clock, host, os_procs, alertVars, d_widgets, d_old, d_cards, storeVars,
                   samplerVars, pruned, historyVars, leakVars>>

D_Cpu == SetsThreshold("cpu", "cpu_threshold", "memory")
D_Memory == SetsThreshold("memory", "memory_threshold", "disk")
D_Disk == SetsThreshold("disk", "disk_threshold", "plot")

\* plot_system_metrics: the three cards, each with the threshold written in
\* the call (80, 80, 90)
D_Plot ==
    /\ d_pc = "plot"
    /\ \E cpu_percent \in Readings, memory_percent \in Readings,
          disk_percent \in Readings :
          d_cards' = [cpu |-> create_metric_card(80, cpu_percent),
                      memory |-> create_metric_card(80, memory_percent),
                      disk |-> create_metric_card(90, disk_percent)]
    /\ d_pc' = "rerun"
    /\ UNCHANGED <<clock, host, os_procs, alertVars, alert_config, d_widgets, d_old,
                   storeVars, samplerVars, pruned, historyVars, leakVars>>

\* time.sleep(refresh_rate); st.rerun()
D_Rerun ==
    /\ d_pc = "rerun"
    /\ d_pc' = "start"
    /\ UNCHANGED <<clock, host, os_procs, alertVars, alert_config, d_widgets, d_old,
                   d_cards, storeVars, samplerVars, pruned, historyVars, leakVars>>

Dashboard == D_Run \/ D_Enabled \/ D_Cpu \/ D_Memory \/ D_Disk \/ D_Plot \/ D_Rerun

\* The script of one dashboard session, run after run
SpecDashboard == InitNoProcess /\ [][Dashboard]_vars

\* C12: with enabled = false in the alert configuration, no card of the
\* evaluation that follows reports a breach, whatever the readings.
C12_DisabledReportsNoBreach ==
    (d_pc = "rerun" /\ ~alert_config.enabled) =>
        \A card \in {"cpu", "memory", "disk"} : d_cards[card] = "success"

\* the configuration the running write is storing: the widget states, or
\* the old thresholds with enabled = false when the checkbox is off
NewConfig ==
    IF d_widgets.enabled THEN d_widgets ELSE [d_old EXCEPT !.enabled = FALSE]

\* C14: in every state the stored configuration is, field for field, the
\* configuration before the running write or the one the write stores.
C14_ConfigReplacedAtomically == alert_config \in {d_old, NewConfig}

\* ------------------------------------------------------------------------
\* Order of the series, defaults of a write, readings of a process
\* ------------------------------------------------------------------------
\* no sample of the series is older than the one before it
Ordered(series) ==
    \A i \in 1..(Len(series) - 1) :
        fromisoformat(series[i].timestamp) <= fromisoformat(series[i + 1].timestamp)

\* C21: in every state each global series and each series of the process
\* table is in non-decreasing order of timestamp, after cycles that
\* succeeded, cycles that failed mid-way and prunes.
C21_SeriesOrdered ==
    /\ \A kind \in Kinds : Ordered(SeriesNamed(kind))
    /\ \A i \in LiveSlots(process_history) : Ordered(process_history[i].series)

\* a prune has dropped a sample, and a later cycle that failed after its
\* memory reading has left memory_history with two samples or more
C21_Witness ==
    /\ pruned
    /\ s_failed = "cpu"
    /\ Len(memory_history) >= 2
    /\ Len(cpu_history) < Len(memory_history)
    /\ memory_history[1].timestamp # memory_history[2].timestamp

\* C22: a write that succeeds without an enabled field stores
\* enabled = true, whatever was stored before, and the three thresholds it
\* carries.
C22_EnabledDefaultsToTrue ==
    (a_resp.code = 200 /\ a_config.enabled = "absent") =>
        /\ ALERTS.enabled = TRUE
        /\ \A f \in ThresholdFields : ALERTS[f] = a_config[f].val

\* a write without an enabled field has succeeded on a configuration that
\* was disabled, and has changed a threshold
C22_Witness ==
    /\ a_resp.code = 200
    /\ a_config.enabled = "absent"
    /\ a_old.enabled = FALSE
    /\ ALERTS.enabled = TRUE
    /\ ALERTS.cpu_threshold # a_old.cpu_threshold

\* C23: every sample of the process table carries a number as its
\* memory_percent, and the comparison of the last five values in the
\* detector never raises.
C23_MemoryPercentIsNumber ==
    /\ \A i \in LiveSlots(process_history) :
          \A k \in 1..Len(process_history[i].series) :
              process_history[i].series[k].memory_percent # NoneVal
    /\ l_error # "TypeError"

====
